---------------------------- MODULE Spec2Model ----------------------------
(***************************************************************************)
(* Model of the VirtualBox plugin (src/__init__.py): the query handler     *)
(* handleGlobalQuery, the entry builder buildItem, the action executors    *)
(* startVm, acpiPowerVm, stopVm, saveVm, discardSavedVm, resumeVm, pauseVm *)
(* and the context manager sharedLockedSession, running against the        *)
(* VirtualBox service (machines, sessions, locks, launch progress).        *)
(*                                                                         *)
(* Every call the plugin makes on the service (an attribute read, a method *)
(* call) is one atomic step; the host may run a query and several invoked  *)
(* actions at the same time, so the steps of different calls interleave.   *)
(***************************************************************************)
EXTENDS Integers, Sequences, FiniteSets, TLC

\* Number of action invocations the host makes (each runs in its own slot).
MaxCalls == 2

Calls == 1..MaxCalls

\* The session object getSessionObject hands out in call p, and the value
\* that stands for no session.
SessionOf(p) == <<"session", p>>

NoSession == <<>>

(***************************************************************************)
(* The service's machines.  Names are character sequences, so that the     *)
(* matcher works on them as it does on strings.                            *)
(***************************************************************************)
Machines == {"m1", "m2", "m3"}

Name(m) ==
    CASE m = "m1" -> <<"w", "o", "r", "k", "-", "v", "m">>
      [] m = "m2" -> <<"t", "e", "s", "t", "-", "v", "m">>
      [] m = "m3" -> <<"b", "u", "i", "l", "d", "-", "b", "o", "x">>

\* Query strings the host passes in.
Queries == { <<"v", "m">>, <<"b", "o">> }

Range(f) == {f[i] : i \in DOMAIN f}

\* vbox_constants.MachineState_*: the five states buildItem tests for, and
\* two of the states it does not (one transitional, one terminal).
PoweredOff == "MachineState_PoweredOff"
Aborted == "MachineState_Aborted"
Saved == "MachineState_Saved"
Running == "MachineState_Running"
Paused == "MachineState_Paused"
Starting == "MachineState_Starting"
Stuck == "MachineState_Stuck"

RunStates == {PoweredOff, Aborted, Saved, Running, Paused, Starting, Stuck}

\* vbox_manager.getEnumValueName("MachineState", value)
getEnumValueName(state) ==
    CASE state = PoweredOff -> "PoweredOff"
      [] state = Aborted -> "Aborted"
      [] state = Saved -> "Saved"
      [] state = Running -> "Running"
      [] state = Paused -> "Paused"
      [] state = Starting -> "Starting"
      [] state = Stuck -> "Stuck"

(***************************************************************************)
(* Matcher(query.string).match(vm.name): the text is split into words at   *)
(* separators; the query matches when each of its words is the prefix of   *)
(* some word of the name.                                                  *)
(***************************************************************************)
Separators == {"-", " "}

RECURSIVE Words(_, _, _)
Words(s, i, cur) ==
    IF i > Len(s)
    THEN IF cur = <<>> THEN <<>> ELSE <<cur>>
    ELSE IF s[i] \in Separators
         THEN (IF cur = <<>> THEN <<>> ELSE <<cur>>) \o Words(s, i + 1, <<>>)
         ELSE Words(s, i + 1, Append(cur, s[i]))

IsPrefix(a, b) == Len(a) <= Len(b) /\ SubSeq(b, 1, Len(a)) = a

match(query, name) ==
    LET qw == Words(query, 1, <<>>)
        nw == Words(name, 1, <<>>)
    IN \A i \in 1..Len(qw) : \E j \in 1..Len(nw) : IsPrefix(qw[i], nw[j])

(***************************************************************************)
(* buildItem, lines 109-124: the action list for the state read at line    *)
(* 110.  An action is its id and the executor and machine its lambda binds.*)
(***************************************************************************)
Action(id, fn, vm) == [id |-> id, fn |-> fn, m |-> vm]

\* As buildItemActions, with the two power-off actions in the other order.
buildItemActions_Swapped(vm, state) ==
    IF state = Running
    THEN << Action("savevm", "saveVm", vm),
            Action("stopvm", "stopVm", vm),
            Action("poweroffvm", "acpiPowerVm", vm),
            Action("pausevm", "pauseVm", vm) >>
    ELSE IF state \in {PoweredOff, Aborted}
    THEN << Action("startvm", "startVm", vm) >>
    ELSE IF state = Saved
    THEN << Action("restorevm", "startVm", vm),
            Action("discardvm", "discardSavedVm", vm) >>
    ELSE IF state = Paused
    THEN << Action("resumevm", "resumeVm", vm) >>
    ELSE <<>>

\* As buildItemActions, with the test of line 116 also true of Paused.
buildItemActions_PausedRuns(vm, state) ==
    (IF state \in {PoweredOff, Aborted}
     THEN << Action("startvm", "startVm", vm) >> ELSE <<>>)
    \o (IF state = Saved
        THEN << Action("restorevm", "startVm", vm),
                Action("discardvm", "discardSavedVm", vm) >> ELSE <<>>)
    \o (IF state \in {Running, Paused}
        THEN << Action("savevm", "saveVm", vm),
                Action("poweroffvm", "acpiPowerVm", vm),
                Action("stopvm", "stopVm", vm),
                Action("pausevm", "pauseVm", vm) >> ELSE <<>>)
    \o (IF state = Paused
        THEN << Action("resumevm", "resumeVm", vm) >> ELSE <<>>)

buildItemActions(vm, state) ==
    LET a0 == <<>>
        a1 == IF state \in {PoweredOff, Aborted}
              THEN Append(a0, Action("startvm", "startVm", vm))
              ELSE a0
        a2 == IF state = Saved
              THEN Append(Append(a1, Action("restorevm", "startVm", vm)),
                          Action("discardvm", "discardSavedVm", vm))
              ELSE a1
        a3 == IF state = Running
              THEN a2 \o << Action("savevm", "saveVm", vm),
                            Action("poweroffvm", "acpiPowerVm", vm),
                            Action("stopvm", "stopVm", vm),
                            Action("pausevm", "pauseVm", vm) >>
              ELSE a2
        a4 == IF state = Paused
              THEN Append(a3, Action("resumevm", "resumeVm", vm))
              ELSE a3
    IN a4

(***************************************************************************)
(* The executors that run under sharedLockedSession, and the one service   *)
(* primitive each calls on the session (lines 161-183).                    *)
(***************************************************************************)
GuardedFns == {"acpiPowerVm", "stopVm", "saveVm", "discardSavedVm",
               "resumeVm", "pauseVm"}

\* As Primitive, with the two ways of powering off exchanged.
Primitive_PowerSwapped(fn) ==
    CASE fn = "acpiPowerVm" -> "console.powerDown"
      [] fn = "stopVm" -> "console.powerButton"
      [] fn = "saveVm" -> "console.saveState"
      [] fn = "discardSavedVm" -> "machine.discardSavedState"
      [] fn = "resumeVm" -> "console.resume"
      [] fn = "pauseVm" -> "console.pause"

Primitive(fn) ==
    CASE fn = "acpiPowerVm" -> "console.powerButton"
      [] fn = "stopVm" -> "console.powerDown"
      [] fn = "saveVm" -> "console.saveState"
      [] fn = "discardSavedVm" -> "machine.discardSavedState"
      [] fn = "resumeVm" -> "console.resume"
      [] fn = "pauseVm" -> "console.pause"

(***************************************************************************)
(* The service: the states in which it accepts a primitive, and the state  *)
(* the machine is in once the primitive has succeeded.                     *)
(***************************************************************************)
SvcAccepts(prim, state) ==
    CASE prim = "console.powerButton" -> state = Running
      [] prim = "console.powerDown" -> state \in {Running, Paused, Stuck}
      [] prim = "console.saveState" -> state \in {Running, Paused}
      [] prim = "machine.discardSavedState" -> state = Saved
      [] prim = "console.resume" -> state = Paused
      [] prim = "console.pause" -> state = Running
      [] prim = "launchVMProcess" -> state \in {PoweredOff, Aborted, Saved}

SvcResult(prim, state) ==
    CASE prim = "console.powerButton" -> state
      [] prim = "console.powerDown" -> PoweredOff
      [] prim = "console.saveState" -> Saved
      [] prim = "machine.discardSavedState" -> PoweredOff
      [] prim = "console.resume" -> Running
      [] prim = "console.pause" -> Paused
      [] prim = "launchVMProcess" -> Starting

VARIABLES
    vmState,    \* service: machine -> its MachineState
    machines,   \* service: the array getArray(vbox, "machines") returns
    lockOf,     \* service: machine -> the session it is locked into, or NoSession
    progress,   \* service: call slot -> state of the launch progress it was given
    call,       \* call slot -> the executor call running in it
    q,          \* the handleGlobalQuery call in progress, or the last one
    pausedNow   \* history: machines whose state is the result of a successful pause

vars == <<machines, vmState, lockOf, progress, call, q, pausedNow>>

IdleCall ==
    [pc |-> "idle", ent |-> "none", act |-> "none", fn |-> "none", m |-> "none",
     sess |-> NoSession, pend |-> "none", outcome |-> "none", err |-> "none",
     warn |-> 0, log |-> <<>>]

IdleQuery ==
    [pc |-> "idle", str |-> <<>>, arr |-> <<>>, i |-> 0, out |-> <<>>,
     st |-> "none", acts |-> <<>>, fresh |-> FALSE, nEnum |-> 0,
     outcome |-> "none"]

\* The plugin is constructed (lines 20-43); the service holds the machines
\* of inv, each in any state, none locked.
InitWith(inv) ==
    /\ machines = inv
    /\ vmState \in [Range(inv) -> RunStates]
    /\ lockOf = [m \in Range(inv) |-> NoSession]
    /\ progress = [p \in Calls |-> "none"]
    /\ call = [p \in Calls |-> IdleCall]
    /\ q = IdleQuery
    /\ pausedNow = {}

\* The calls are studied on the one machine they can contend for.
Init == InitWith(<<"m1">>)


\* One service call as recorded in a call's history.
Ev(op, m, s, ok) == [op |-> op, m |-> m, s |-> s, ok |-> ok]

Logged(p, op, ok) == Append(call[p].log, Ev(op, call[p].m, call[p].sess, ok))

\* The service moves machine m to state s; byPause says a pause did it.
SetState(m, s, byPause) ==
    /\ vmState' = [vmState EXCEPT ![m] = s]
    /\ pausedNow' = IF byPause THEN pausedNow \cup {m}
                    ELSE IF s = vmState[m] THEN pausedNow
                    ELSE pausedNow \ {m}

(***************************************************************************)
(* handleGlobalQuery, lines 135-141, with buildItem, lines 108-133.        *)
(***************************************************************************)
\* The host calls handleGlobalQuery(query), lines 136-138: the matcher is
\* made and vbox_manager.getArray(vbox, "machines") returns the inventory.
QueryEnumerate(s) ==
    /\ q.pc \in {"idle", "done"}
    /\ q' = [IdleQuery EXCEPT !.pc = "match", !.str = s, !.arr = machines,
                              !.i = 1, !.nEnum = IdleQuery.nEnum + 1]
    /\ UNCHANGED <<machines, vmState, lockOf, progress, call, pausedNow>>

\* Lines 136-138, the enumeration failing: the failure leaves
\* handleGlobalQuery.
QueryEnumerateFail(s) ==
    /\ q.pc \in {"idle", "done"}
    /\ q' = [IdleQuery EXCEPT !.pc = "done", !.str = s,
                              !.nEnum = IdleQuery.nEnum + 1,
                              !.outcome = "raised"]
    /\ UNCHANGED <<machines, vmState, lockOf, progress, call, pausedNow>>

\* As QueryMatch, building an entry whether or not the name matches.
QueryMatch_NoFilter ==
    /\ q.pc = "match"
    /\ q.i <= Len(q.arr)
    /\ q' = [q EXCEPT !.pc = "build"]
    /\ UNCHANGED <<machines, vmState, lockOf, progress, call, pausedNow>>

\* Line 139: matcher.match(vm.name) for the next machine of the array.
QueryMatch ==
    /\ q.pc = "match"
    /\ q.i <= Len(q.arr)
    /\ q' = IF match(q.str, Name(q.arr[q.i]))
            THEN [q EXCEPT !.pc = "build"]
            ELSE [q EXCEPT !.i = q.i + 1]
    /\ UNCHANGED <<machines, vmState, lockOf, progress, call, pausedNow>>

\* As BuildActions, with the machine locked into a session of the query's
\* own for the read of its state.
BuildActions_Locked ==
    /\ q.pc = "build"
    /\ LET vm == q.arr[q.i]
       IN /\ q' = [q EXCEPT !.pc = "item", !.st = vmState[vm],
                            !.acts = buildItemActions(vm, vmState[vm]),
                            !.fresh = vm \in pausedNow]
          /\ lockOf' = [lockOf EXCEPT ![vm] = <<"session", "query">>]
    /\ UNCHANGED <<machines, vmState, progress, call, pausedNow>>

\* buildItem lines 109-124: read vm.state once, collect the actions.
BuildActions ==
    /\ q.pc = "build"
    /\ LET vm == q.arr[q.i]
       IN q' = [q EXCEPT !.pc = "item", !.st = vmState[vm],
                         !.acts = buildItemActions(vm, vmState[vm]),
                         !.fresh = vm \in pausedNow]
    /\ UNCHANGED <<machines, vmState, lockOf, progress, call, pausedNow>>

\* buildItem lines 126-133 and line 140: read vm.state again for the
\* subtext, make the item, append it.
BuildEntry ==
    /\ q.pc = "item"
    /\ LET vm == q.arr[q.i]
           item == [id |-> vm, text |-> Name(vm),
                    subtext |-> getEnumValueName(vmState[vm]),
                    actions |-> q.acts, obs |-> q.st, fresh |-> q.fresh]
       IN q' = [q EXCEPT !.pc = "match", !.i = q.i + 1,
                         !.out = Append(q.out, item),
                         !.st = "none", !.acts = <<>>, !.fresh = FALSE]
    /\ UNCHANGED <<machines, vmState, lockOf, progress, call, pausedNow>>

\* Line 141: return items.
QueryReturn ==
    /\ q.pc = "match"
    /\ q.i > Len(q.arr)
    /\ q' = [q EXCEPT !.pc = "done", !.outcome = "returned"]
    /\ UNCHANGED <<machines, vmState, lockOf, progress, call, pausedNow>>

(***************************************************************************)
(* The host activates action a of entry e of the list the last query       *)
(* returned, in the free slot p: the lambda of lines 112-124 calls its     *)
(* executor with the machine it has bound.  The step that starts a call    *)
(* goes up to the executor's first call on the service.                    *)
(***************************************************************************)
CanInvoke(p, e, a) ==
    /\ call[p].pc = "idle"
    /\ \A r \in Calls : r < p => call[r].pc # "idle"
    /\ q.pc = "done"
    /\ e \in 1..Len(q.out)
    /\ a \in 1..Len(q.out[e].actions)

\* As Invoked, with lambdas that look the machine up when they are called
\* and find the last machine the query built an entry for.
Invoked_LastBuilt(e, a) ==
    LET action == q.out[e].actions[a]
    IN [IdleCall EXCEPT !.ent = q.out[e].id, !.act = action.id,
                        !.fn = action.fn, !.m = q.out[Len(q.out)].id]

\* The call the lambda makes; ent records the entry the action was taken
\* from.
Invoked(e, a) ==
    LET action == q.out[e].actions[a]
    IN [IdleCall EXCEPT !.ent = q.out[e].id, !.act = action.id,
                        !.fn = action.fn, !.m = action.m]

(***************************************************************************)
(* startVm, lines 143-150.                                                 *)
(***************************************************************************)
\* As Warned, without the except clause: the failure leaves startVm.
Warned_Propagates(c, op) ==
    [c EXCEPT !.pc = "done", !.outcome = "raised", !.err = op,
              !.log = Append(c.log, Ev(op, c.m, c.sess, FALSE))]

\* Line 150: the except clause records a warning; startVm then returns.
Warned(c, op) ==
    [c EXCEPT !.pc = "done", !.outcome = "returned", !.warn = c.warn + 1,
              !.log = c.log \o << Ev(op, c.m, c.sess, FALSE),
                                  Ev("warning", c.m, c.sess, TRUE) >>]

\* Line 146: getSessionObject hands out a new session object, which is
\* named by the call it is made in.
StartGetSession(p, e, a) ==
    /\ CanInvoke(p, e, a) /\ Invoked(e, a).fn = "startVm"
    /\ call' = [call EXCEPT ![p] =
                  [Invoked(e, a) EXCEPT !.pc = "launch", !.sess = SessionOf(p),
                       !.log = << Ev("getSessionObject", Invoked(e, a).m,
                                     SessionOf(p), TRUE) >>]]
    /\ UNCHANGED <<machines, vmState, lockOf, progress, q, pausedNow>>

StartGetSessionFail(p, e, a) ==
    /\ CanInvoke(p, e, a) /\ Invoked(e, a).fn = "startVm"
    /\ call' = [call EXCEPT ![p] = Warned(Invoked(e, a), "getSessionObject")]
    /\ UNCHANGED <<machines, vmState, lockOf, progress, q, pausedNow>>

\* As StartLaunch, with the machine locked into the session first.
StartLaunch_Locks(p) ==
    /\ call[p].pc = "launch"
    /\ SvcAccepts("launchVMProcess", vmState[call[p].m])
    /\ lockOf[call[p].m] = NoSession
    /\ lockOf' = [lockOf EXCEPT ![call[p].m] = call[p].sess]
    /\ call' = [call EXCEPT ![p] =
                  [call[p] EXCEPT !.pc = "wait",
                                  !.log = Logged(p, "launchVMProcess", TRUE)]]
    /\ progress' = [progress EXCEPT ![p] = "running"]
    /\ SetState(call[p].m, SvcResult("launchVMProcess", vmState[call[p].m]), FALSE)
    /\ UNCHANGED <<machines, q>>

\* Line 147: vm.launchVMProcess(session, 'gui', '') returns a progress.
StartLaunch(p) ==
    /\ call[p].pc = "launch"
    /\ SvcAccepts("launchVMProcess", vmState[call[p].m])
    /\ call' = [call EXCEPT ![p] =
                  [call[p] EXCEPT !.pc = "wait",
                                  !.log = Logged(p, "launchVMProcess", TRUE)]]
    /\ progress' = [progress EXCEPT ![p] = "running"]
    /\ SetState(call[p].m, SvcResult("launchVMProcess", vmState[call[p].m]), FALSE)
    /\ UNCHANGED <<machines, lockOf, q>>

StartLaunchFail(p) ==
    /\ call[p].pc = "launch"
    /\ call' = [call EXCEPT ![p] = Warned(call[p], "launchVMProcess")]
    /\ UNCHANGED <<machines, vmState, lockOf, progress, q, pausedNow>>

\* As StartWait, with a wait that gives up after a time-out.
StartWait_TimesOut(p) ==
    /\ call[p].pc = "wait"
    /\ call' = [call EXCEPT ![p] =
                  [call[p] EXCEPT !.pc = "done", !.outcome = "returned",
                                  !.log = Logged(p, "waitForCompletion", TRUE)]]
    /\ UNCHANGED <<machines, vmState, lockOf, progress, q, pausedNow>>

\* Line 148: progress.waitForCompletion(-1) returns once the launch is over.
StartWait(p) ==
    /\ call[p].pc = "wait"
    /\ progress[p] = "done"
    /\ call' = [call EXCEPT ![p] =
                  [call[p] EXCEPT !.pc = "done", !.outcome = "returned",
                                  !.log = Logged(p, "waitForCompletion", TRUE)]]
    /\ UNCHANGED <<machines, vmState, lockOf, progress, q, pausedNow>>

StartWaitFail(p) ==
    /\ call[p].pc = "wait"
    /\ call' = [call EXCEPT ![p] = Warned(call[p], "waitForCompletion")]
    /\ UNCHANGED <<machines, vmState, lockOf, progress, q, pausedNow>>

\* The service finishes a launch: the progress completes, the machine runs.
SvcLaunchDone(p) ==
    /\ progress[p] = "running"
    /\ progress' = [progress EXCEPT ![p] = "done"]
    /\ IF vmState[call[p].m] = Starting
       THEN SetState(call[p].m, Running, FALSE)
       ELSE UNCHANGED <<vmState, pausedNow>>
    /\ UNCHANGED <<machines, lockOf, call, q>>

\* The guest of a running machine shuts down.
SvcGuestOff(m) ==
    /\ m \in DOMAIN vmState
    /\ vmState[m] = Running
    /\ SetState(m, PoweredOff, FALSE)
    /\ UNCHANGED <<machines, lockOf, progress, call, q>>

(***************************************************************************)
(* sharedLockedSession, lines 152-159, around the body of an executor of   *)
(* lines 161-183.                                                          *)
(***************************************************************************)
\* Line 154: getSessionObject, before the try statement.
GuardGetSession(p, e, a) ==
    /\ CanInvoke(p, e, a) /\ Invoked(e, a).fn \in GuardedFns
    /\ call' = [call EXCEPT ![p] =
                  [Invoked(e, a) EXCEPT !.pc = "lock", !.sess = SessionOf(p),
                       !.log = << Ev("getSessionObject", Invoked(e, a).m,
                                     SessionOf(p), TRUE) >>]]
    /\ UNCHANGED <<machines, vmState, lockOf, progress, q, pausedNow>>

GuardGetSessionFail(p, e, a) ==
    /\ CanInvoke(p, e, a) /\ Invoked(e, a).fn \in GuardedFns
    /\ call' = [call EXCEPT ![p] =
                  [Invoked(e, a) EXCEPT !.pc = "done", !.outcome = "raised",
                       !.err = "getSessionObject",
                       !.log = << Ev("getSessionObject", Invoked(e, a).m,
                                     NoSession, FALSE) >>]]
    /\ UNCHANGED <<machines, vmState, lockOf, progress, q, pausedNow>>

\* Line 156: vm.lockMachine(session, LockType_Shared); the service grants
\* the lock when no session holds the machine.
GuardLock(p) ==
    /\ call[p].pc = "lock"
    /\ lockOf[call[p].m] = NoSession
    /\ lockOf' = [lockOf EXCEPT ![call[p].m] = call[p].sess]
    /\ call' = [call EXCEPT ![p] =
                  [call[p] EXCEPT !.pc = "body",
                                  !.log = Logged(p, "lockMachine", TRUE)]]
    /\ UNCHANGED <<machines, vmState, progress, q, pausedNow>>

\* As GuardLockFail, with a lock call that waits while another session
\* holds the machine and fails only for other reasons.
GuardLockFail_Waits(p) ==
    /\ call[p].pc = "lock"
    /\ lockOf[call[p].m] = NoSession
    /\ call' = [call EXCEPT ![p] =
                  [call[p] EXCEPT !.pc = "finally", !.pend = "lockMachine",
                                  !.log = Logged(p, "lockMachine", FALSE)]]
    /\ UNCHANGED <<machines, vmState, lockOf, progress, q, pausedNow>>

\* Line 156 fails: control goes to the finally clause with the failure
\* pending.
GuardLockFail(p) ==
    /\ call[p].pc = "lock"
    /\ call' = [call EXCEPT ![p] =
                  [call[p] EXCEPT !.pc = "finally", !.pend = "lockMachine",
                                  !.log = Logged(p, "lockMachine", FALSE)]]
    /\ UNCHANGED <<machines, vmState, lockOf, progress, q, pausedNow>>

\* Line 157 yields the session and the with-body calls its primitive.
GuardBody(p) ==
    /\ call[p].pc = "body"
    /\ LET prim == Primitive(call[p].fn)
           m == call[p].m
       IN /\ SvcAccepts(prim, vmState[m])
          /\ SetState(m, SvcResult(prim, vmState[m]), prim = "console.pause")
          /\ call' = [call EXCEPT ![p] =
                        [call[p] EXCEPT !.pc = "finally",
                                        !.log = Logged(p, prim, TRUE)]]
    /\ UNCHANGED <<machines, lockOf, progress, q>>

\* As GuardBodyFail, without the finally clause: the failure leaves the
\* executor at once.
GuardBodyFail_NoFinally(p) ==
    /\ call[p].pc = "body"
    /\ LET prim == Primitive(call[p].fn)
       IN call' = [call EXCEPT ![p] =
                     [call[p] EXCEPT !.pc = "done", !.outcome = "raised",
                                     !.err = prim, !.pend = prim,
                                     !.log = Logged(p, prim, FALSE)]]
    /\ UNCHANGED <<machines, vmState, lockOf, progress, q, pausedNow>>

\* The primitive fails: control goes to the finally clause with the failure
\* pending.
GuardBodyFail(p) ==
    /\ call[p].pc = "body"
    /\ LET prim == Primitive(call[p].fn)
       IN call' = [call EXCEPT ![p] =
                     [call[p] EXCEPT !.pc = "finally", !.pend = prim,
                                     !.log = Logged(p, prim, FALSE)]]
    /\ UNCHANGED <<machines, vmState, lockOf, progress, q, pausedNow>>

\* As GuardUnlock, with an unlock that releases the machine whichever
\* session holds it.
GuardUnlock_AnyHolder(p) ==
    /\ call[p].pc = "finally"
    /\ lockOf' = [lockOf EXCEPT ![call[p].m] = NoSession]
    /\ call' = [call EXCEPT ![p] =
                  [call[p] EXCEPT !.pc = "done",
                       !.outcome = IF call[p].pend = "none" THEN "returned"
                                   ELSE "raised",
                       !.err = call[p].pend,
                       !.log = Logged(p, "unlockMachine", TRUE)]]
    /\ UNCHANGED <<machines, vmState, progress, q, pausedNow>>

\* Lines 158-159: session.unlockMachine() succeeds; a pending failure then
\* goes on to the caller, otherwise the executor returns.
GuardUnlock(p) ==
    /\ call[p].pc = "finally"
    /\ lockOf' = [m \in DOMAIN lockOf |->
                    IF lockOf[m] = call[p].sess THEN NoSession ELSE lockOf[m]]
    /\ call' = [call EXCEPT ![p] =
                  [call[p] EXCEPT !.pc = "done",
                       !.outcome = IF call[p].pend = "none" THEN "returned"
                                   ELSE "raised",
                       !.err = call[p].pend,
                       !.log = Logged(p, "unlockMachine", TRUE)]]
    /\ UNCHANGED <<machines, vmState, progress, q, pausedNow>>

\* Lines 158-159: session.unlockMachine() fails; its failure is the one that
\* leaves the finally clause.
GuardUnlockFail(p) ==
    /\ call[p].pc = "finally"
    /\ call' = [call EXCEPT ![p] =
                  [call[p] EXCEPT !.pc = "done", !.outcome = "raised",
                                  !.err = "unlockMachine",
                                  !.log = Logged(p, "unlockMachine", FALSE)]]
    /\ UNCHANGED <<machines, vmState, lockOf, progress, q, pausedNow>>

Next ==
    \/ \E s \in Queries : QueryEnumerate(s)
    \/ \E s \in Queries : QueryEnumerateFail(s)
    \/ QueryMatch
    \/ BuildActions
    \/ BuildEntry
    \/ QueryReturn
    \/ \E p \in Calls : \E e \in 1..Len(q.out) :
           \E a \in 1..Len(q.out[e].actions) : StartGetSession(p, e, a)
    \/ \E p \in Calls : \E e \in 1..Len(q.out) :
           \E a \in 1..Len(q.out[e].actions) : StartGetSessionFail(p, e, a)
    \/ \E p \in Calls : StartLaunch(p)
    \/ \E p \in Calls : StartLaunchFail(p)
    \/ \E p \in Calls : StartWait(p)
    \/ \E p \in Calls : StartWaitFail(p)
    \/ \E p \in Calls : SvcLaunchDone(p)
    \/ \E m \in Machines : SvcGuestOff(m)
    \/ \E p \in Calls : \E e \in 1..Len(q.out) :
           \E a \in 1..Len(q.out[e].actions) : GuardGetSession(p, e, a)
    \/ \E p \in Calls : \E e \in 1..Len(q.out) :
           \E a \in 1..Len(q.out[e].actions) : GuardGetSessionFail(p, e, a)
    \/ \E p \in Calls : GuardLock(p)
    \/ \E p \in Calls : GuardLockFail(p)
    \/ \E p \in Calls : GuardBody(p)
    \/ \E p \in Calls : GuardBodyFail(p)
    \/ \E p \in Calls : GuardUnlock(p)
    \/ \E p \in Calls : GuardUnlockFail(p)

Spec == Init /\ [][Next]_vars


(***************************************************************************)
(* The query handler alone, against a service whose machines change state  *)
(* on their own: the inventory of three machines, no action invoked.       *)
(***************************************************************************)
InitQuery == InitWith(<<"m1", "m2", "m3">>)

NextQuery ==
    \/ \E s \in Queries : QueryEnumerate(s)
    \/ \E s \in Queries : QueryEnumerateFail(s)
    \/ QueryMatch
    \/ BuildActions
    \/ BuildEntry
    \/ QueryReturn
    \/ \E m \in Machines : SvcGuestOff(m)

SpecQuery == InitQuery /\ [][NextQuery]_vars

(***************************************************************************)
(* One action at a time, taken from a list with the entries of two         *)
(* machines, while the machines change state on their own.                 *)
(***************************************************************************)
InitPair == InitWith(<<"m1", "m2">>)

NextPair ==
    \/ \E s \in Queries : QueryEnumerate(s)
    \/ \E s \in Queries : QueryEnumerateFail(s)
    \/ QueryMatch
    \/ BuildActions
    \/ BuildEntry
    \/ QueryReturn
    \/ \E e \in 1..Len(q.out) :
           \E a \in 1..Len(q.out[e].actions) : StartGetSession(1, e, a)
    \/ \E e \in 1..Len(q.out) :
           \E a \in 1..Len(q.out[e].actions) : StartGetSessionFail(1, e, a)
    \/ StartLaunch(1)
    \/ StartLaunchFail(1)
    \/ StartWait(1)
    \/ StartWaitFail(1)
    \/ SvcLaunchDone(1)
    \/ \E m \in Machines : SvcGuestOff(m)
    \/ \E e \in 1..Len(q.out) :
           \E a \in 1..Len(q.out[e].actions) : GuardGetSession(1, e, a)
    \/ \E e \in 1..Len(q.out) :
           \E a \in 1..Len(q.out[e].actions) : GuardGetSessionFail(1, e, a)
    \/ GuardLock(1)
    \/ GuardLockFail(1)
    \/ GuardBody(1)
    \/ GuardBodyFail(1)
    \/ GuardUnlock(1)
    \/ GuardUnlockFail(1)

SpecPair == InitPair /\ [][NextPair]_vars

(***************************************************************************)
(* The session-guarded actions alone, interleaved on one machine.          *)
(***************************************************************************)
NextGuard ==
    \/ \E s \in Queries : QueryEnumerate(s)
    \/ \E s \in Queries : QueryEnumerateFail(s)
    \/ QueryMatch
    \/ BuildActions
    \/ BuildEntry
    \/ QueryReturn
    \/ \E m \in Machines : SvcGuestOff(m)
    \/ \E p \in Calls : \E e \in 1..Len(q.out) :
           \E a \in 1..Len(q.out[e].actions) : GuardGetSession(p, e, a)
    \/ \E p \in Calls : \E e \in 1..Len(q.out) :
           \E a \in 1..Len(q.out[e].actions) : GuardGetSessionFail(p, e, a)
    \/ \E p \in Calls : GuardLock(p)
    \/ \E p \in Calls : GuardLockFail(p)
    \/ \E p \in Calls : GuardBody(p)
    \/ \E p \in Calls : GuardBodyFail(p)
    \/ \E p \in Calls : GuardUnlock(p)
    \/ \E p \in Calls : GuardUnlockFail(p)

SpecGuard == Init /\ [][NextGuard]_vars

(***************************************************************************)
(* Reading a call's history.                                               *)
(***************************************************************************)
Count(p, op) == Cardinality({i \in DOMAIN call[p].log : call[p].log[i].op = op})

Did(p, op, ok) ==
    \E i \in DOMAIN call[p].log : call[p].log[i].op = op /\ call[p].log[i].ok = ok

Primitives == {Primitive(fn) : fn \in GuardedFns}

IsGuarded(p) == call[p].fn \in GuardedFns

IsStart(p) == call[p].fn = "startVm"

Done(p) == call[p].pc = "done"

\* The action kind an entry's action stands for.
ActionKind(a) ==
    CASE a.id = "startvm" /\ a.fn = "startVm" -> "Start"
      [] a.id = "restorevm" /\ a.fn = "startVm" -> "RestoreSaved"
      [] a.id = "discardvm" /\ a.fn = "discardSavedVm" -> "DiscardSaved"
      [] a.id = "savevm" /\ a.fn = "saveVm" -> "Save"
      [] a.id = "poweroffvm" /\ a.fn = "acpiPowerVm" -> "PowerButton"
      [] a.id = "stopvm" /\ a.fn = "stopVm" -> "PowerDown"
      [] a.id = "pausevm" /\ a.fn = "pauseVm" -> "Pause"
      [] a.id = "resumevm" /\ a.fn = "resumeVm" -> "Resume"
      [] OTHER -> "unknown"

Kinds(actions) == [i \in 1..Len(actions) |-> ActionKind(actions[i])]

\* The lists built so far by the query: the entries appended, and the list
\* of the entry under construction.
Built ==
    {[obs |-> q.out[i].obs, kinds |-> Kinds(q.out[i].actions)] : i \in 1..Len(q.out)}
    \cup (IF q.pc = "item" THEN {[obs |-> q.st, kinds |-> Kinds(q.acts)]} ELSE {})

(***************************************************************************)
(* C1: for every run state, the action list buildItem produces is the one  *)
(* of the table, in presentation order: PoweredOff or Aborted -> [Start];  *)
(* Saved -> [RestoreSaved, DiscardSaved]; Running -> [Save, PowerButton,   *)
(* PowerDown, Pause]; Paused -> [Resume]; any other state -> the empty     *)
(* list; and two lists built from the same state are equal.                *)
(***************************************************************************)
C1_ActionTable ==
    /\ \A b \in Built :
         b.kinds = CASE b.obs \in {PoweredOff, Aborted} -> <<"Start">>
                     [] b.obs = Saved -> <<"RestoreSaved", "DiscardSaved">>
                     [] b.obs = Running ->
                          <<"Save", "PowerButton", "PowerDown", "Pause">>
                     [] b.obs = Paused -> <<"Resume">>
                     [] OTHER -> <<>>
    /\ \A b, c \in Built : b.obs = c.obs => b.kinds = c.kinds

\* A returned list with an entry built from Running and one built from a
\* state that offers nothing.
C1_Witness ==
    /\ q.pc = "done"
    /\ Len(q.out) = 2
    /\ q.out[1].obs = Running /\ Len(q.out[1].actions) = 4
    /\ q.out[2].obs = Starting /\ q.out[2].actions = <<>>

(***************************************************************************)
(* C2: if lockMachine fails inside sharedLockedSession, unlockMachine is   *)
(* never called on that session.                                           *)
(***************************************************************************)
C2_NoUnlockAfterFailedLock ==
    \A p \in Calls :
        (IsGuarded(p) /\ Did(p, "lockMachine", FALSE)) => Count(p, "unlockMachine") = 0

(***************************************************************************)
(* C3: a session-guarded action whose lock succeeds has, when it is over   *)
(* (returned or failed), obtained the session exactly once, attempted the  *)
(* lock exactly once and called unlock exactly once; before that it never  *)
(* did any of them more than once.                                         *)
(***************************************************************************)
C3_ExactlyOnce ==
    \A p \in Calls :
        (IsGuarded(p) /\ Did(p, "lockMachine", TRUE)) =>
            /\ Count(p, "getSessionObject") = 1
            /\ Count(p, "lockMachine") = 1
            /\ Count(p, "unlockMachine") <= 1
            /\ Done(p) => Count(p, "unlockMachine") = 1

\* One guarded call has returned and another has failed in its primitive,
\* both after a successful lock.
C3_Witness ==
    \E p, r \in Calls :
        /\ IsGuarded(p) /\ Done(p) /\ call[p].outcome = "returned"
        /\ IsGuarded(r) /\ Done(r) /\ Did(r, "lockMachine", TRUE)
        /\ Did(r, Primitive(call[r].fn), FALSE)

(***************************************************************************)
(* C4: startVm (Start and RestoreSaved) never passes a failure on to its   *)
(* caller: whichever step fails, the call returns normally with exactly    *)
(* one warning recorded; when no step fails no warning is recorded.        *)
(***************************************************************************)
Failed(p) == {i \in DOMAIN call[p].log : ~call[p].log[i].ok}

C4_StartSwallows ==
    \A p \in Calls :
        (IsStart(p) /\ Done(p)) =>
            /\ call[p].outcome = "returned"
            /\ call[p].err = "none"
            /\ call[p].warn = Count(p, "warning")
            /\ call[p].warn = (IF Failed(p) = {} THEN 0 ELSE 1)

\* A RestoreSaved whose wait for the launch failed, and a Start in which
\* nothing failed.
C4_Witness ==
    \E p, r \in Calls :
        /\ IsStart(p) /\ Done(p) /\ call[p].act = "restorevm"
        /\ Did(p, "waitForCompletion", FALSE)
        /\ IsStart(r) /\ Done(r) /\ call[r].act = "startvm"
        /\ Did(r, "waitForCompletion", TRUE)

(***************************************************************************)
(* C5: a failure of the primitive run under the shared session, or of the  *)
(* lock, is not caught: that failure reaches the caller of the action and  *)
(* no warning is logged.                                                   *)
(***************************************************************************)
C5_FailurePropagates ==
    \A p \in Calls :
        (IsGuarded(p) /\ Done(p)) =>
            /\ \A op \in Primitives \cup {"lockMachine"} :
                 Did(p, op, FALSE) =>
                     call[p].outcome = "raised" /\ call[p].err = op
            /\ call[p].warn = 0 /\ Count(p, "warning") = 0

(***************************************************************************)
(* C6: a failure of unlock does not mask the outcome of the guarded        *)
(* action: a successful action still reports success, a failed one still   *)
(* hands its own failure to the caller, and the unlock failure is logged.  *)
(***************************************************************************)
C6_UnlockFailureNotMasking ==
    \A p \in Calls :
        (IsGuarded(p) /\ Done(p) /\ Did(p, "unlockMachine", FALSE)) =>
            /\ call[p].pend = "none" => call[p].outcome = "returned"
            /\ call[p].pend # "none" =>
                   call[p].outcome = "raised" /\ call[p].err = call[p].pend
            /\ Count(p, "warning") = 1


(***************************************************************************)
(* C7: when a session-guarded action attempts its lock while another       *)
(* action's session holds the machine, the service refuses it, and the     *)
(* action ends with a session error (a lock or unlock failure) without     *)
(* any step of the action holding the lock: it does not wait for the       *)
(* release.                                                                *)
(***************************************************************************)
SessionErrors == {"lockMachine", "unlockMachine"}

HeldByOther(p) == lockOf[call[p].m] \notin {NoSession, call[p].sess}

Ids(out) == [i \in 1..Len(out) |-> out[i].id]

Matches(str, m) == match(str, Name(m))

C8_OneEntryPerMatch ==
    /\ q.nEnum <= 1
    /\ (q.pc = "done" /\ q.outcome = "returned") =>
          /\ q.nEnum = 1
          /\ Ids(q.out) = SelectSeq(q.arr, LAMBDA m : Matches(q.str, m))
          /\ \A i \in 1..Len(q.out) : q.out[i].text = Name(q.out[i].id)
          /\ (q.str = <<"v", "m">> /\ q.arr = <<"m1", "m2", "m3">>) =>
                 Ids(q.out) = <<"m1", "m2">>

C8_Witness ==
    /\ q.pc = "done" /\ q.outcome = "returned"
    /\ q.str = <<"v", "m">>
    /\ q.arr = <<"m1", "m2", "m3">>
    /\ Ids(q.out) = <<"m1", "m2">>

(***************************************************************************)
(* C9: a Start or RestoreSaved call never locks or unlocks a session: it   *)
(* calls neither lockMachine nor unlockMachine, its session never holds a  *)
(* machine and none of its steps changes the lock table; so while it waits *)
(* for the launch a guarded action on the same machine is granted its      *)
(* lock as if the Start were not there.                                    *)
(***************************************************************************)
C9_StartHoldsNoLock ==
    \A p \in Calls :
        IsStart(p) =>
            /\ Count(p, "lockMachine") = 0
            /\ Count(p, "unlockMachine") = 0
            /\ \A m \in DOMAIN lockOf :
                 lockOf[m] = NoSession \/ lockOf[m] # call[p].sess
            /\ \A r \in Calls :
                 (call[p].pc = "wait" /\ call[r].pc = "lock"
                  /\ call[r].m = call[p].m
                  /\ \A o \in Calls : IsGuarded(o) => lockOf[call[r].m] # call[o].sess)
                     => ENABLED GuardLock(r)

\* A Start is still waiting for its launch, and a guarded action invoked
\* after it on the same machine has locked, run and unlocked.
C9_Witness ==
    \E p, r \in Calls :
        /\ p < r
        /\ IsStart(p) /\ call[p].pc = "wait" /\ progress[p] = "running"
        /\ IsGuarded(r) /\ call[r].m = call[p].m
        /\ Done(r) /\ call[r].outcome = "returned"
        /\ Did(r, "lockMachine", TRUE) /\ Did(r, "unlockMachine", TRUE)

(***************************************************************************)
(* C10: once Pause has succeeded on a Running machine, so that the service *)
(* reports Paused, an entry built from that state offers exactly [Resume]  *)
(* and none of Save, PowerButton, PowerDown, Pause.                        *)
(***************************************************************************)
BuiltAfterPause ==
    {Kinds(q.out[i].actions) : i \in {j \in 1..Len(q.out) : q.out[j].fresh}}
    \cup (IF q.pc = "item" /\ q.fresh THEN {Kinds(q.acts)} ELSE {})

C10_ResumeAfterPause ==
    /\ \A m \in pausedNow : vmState[m] = Paused
    /\ \A k \in BuiltAfterPause : k = <<"Resume">>

\* A pauseVm call has returned and the list returned by a later query has
\* the entry built from the paused machine.
C10_Witness ==
    /\ q.pc = "done"
    /\ \E i \in 1..Len(q.out), p \in Calls :
         /\ q.out[i].fresh /\ q.out[i].subtext = "Paused"
         /\ call[p].fn = "pauseVm" /\ call[p].m = q.out[i].id
         /\ Done(p) /\ call[p].outcome = "returned"


(***************************************************************************)
(* C11: a query (handleGlobalQuery with buildItem) mutates nothing: none   *)
(* of its steps obtains, locks or unlocks a session, launches a process or *)
(* issues a console or machine operation, so every step of the query       *)
(* leaves the machine states, the locks, the launch progresses and the     *)
(* calls as they were; the locks change only in a step of an invoked       *)
(* action, and the machine states only in such a step or in a step of the  *)
(* service.                                                                *)
(***************************************************************************)
C11_QueryMutatesNothing ==
    [][ /\ (q' # q) => UNCHANGED <<machines, vmState, lockOf, progress, call>>
        /\ (lockOf' # lockOf) => (call' # call)
        /\ (vmState' # vmState) => (call' # call \/ UNCHANGED <<call, q, lockOf>>) ]_vars

\* A query has returned an entry with actions and no action was ever
\* invoked: no call has started, no machine is locked.
C11_Witness ==
    /\ q.pc = "done" /\ q.outcome = "returned"
    /\ \E i \in 1..Len(q.out) : q.out[i].actions # <<>>
    /\ \A p \in Calls : call[p] = IdleCall
    /\ \A m \in DOMAIN lockOf : lockOf[m] = NoSession


(***************************************************************************)
(* C12: an action of an entry is bound to the machine the entry was built  *)
(* for: in a list with the entries of several machines, every service call *)
(* of a call invoked from machine M's entry is made against M, none        *)
(* against another machine; and whatever the state of M has become since   *)
(* the listing, the action can be invoked and goes to the service, which   *)
(* alone may reject it: no executor reads the state before it calls.       *)
(***************************************************************************)
\* The first service call of action a of entry e, made or failing.
FirstCall(e, a) ==
    \/ StartGetSession(1, e, a) \/ StartGetSessionFail(1, e, a)
    \/ GuardGetSession(1, e, a) \/ GuardGetSessionFail(1, e, a)

C12_BoundToItsMachine ==
    /\ \A p \in Calls : call[p].pc # "idle" =>
          /\ call[p].m = call[p].ent
          /\ call[p].log # <<>>
          /\ \A i \in DOMAIN call[p].log : call[p].log[i].m = call[p].ent
          /\ \A m \in DOMAIN lockOf :
                (lockOf[m] # NoSession /\ lockOf[m] = call[p].sess) => m = call[p].ent
    /\ (q.pc = "done" /\ call[1].pc = "idle") =>
          \A e \in 1..Len(q.out) : \A a \in 1..Len(q.out[e].actions) :
              ENABLED FirstCall(e, a)

\* The list has the entries of m1 and m2, both seen Running; m2 has since
\* gone off, and pausevm taken from m2's entry locked m2 and called
\* console.pause on it, which the service rejected.
C12_Witness ==
    /\ q.pc = "done" /\ Len(q.out) = 2
    /\ q.out[1].id = "m1" /\ q.out[2].id = "m2"
    /\ q.out[1].obs = Running /\ q.out[2].obs = Running
    /\ vmState["m2"] = PoweredOff
    /\ call[1].ent = "m2" /\ call[1].act = "pausevm"
    /\ Did(1, "lockMachine", TRUE)
    /\ Did(1, "console.pause", FALSE)
    /\ \A i \in DOMAIN call[1].log : call[1].log[i].m = "m2"


(***************************************************************************)
(* C13: startVm calls the service in the order getSessionObject,           *)
(* launchVMProcess with the session it was given, waitForCompletion        *)
(* without time-out; a step is made only when the one before it has        *)
(* succeeded; startVm is over only when the wait has returned or a step    *)
(* has failed; and the wait returns only when the launch progress has      *)
(* completed, so that while it does not complete and no step fails the     *)
(* call stays in the wait.                                                 *)
(***************************************************************************)
StartOrder == <<"getSessionObject", "launchVMProcess", "waitForCompletion">>

\* The calls on the service in a call's history, the warnings left out.
IsServiceCall(ev) == ev.op # "warning"

ServiceCalls(p) == SelectSeq(call[p].log, IsServiceCall)

C13_StartOrder ==
    \A p \in Calls : IsStart(p) =>
        LET sc == ServiceCalls(p)
        IN /\ Len(sc) \in 1..Len(StartOrder)
           /\ \A i \in 1..Len(sc) :
                 /\ sc[i].op = StartOrder[i]
                 /\ i < Len(sc) => sc[i].ok
                 /\ i > 1 => sc[i].s = sc[1].s /\ sc[i].s = SessionOf(p)
           /\ Done(p) => (Did(p, "waitForCompletion", TRUE) \/ Failed(p) # {})
           /\ Did(p, "waitForCompletion", TRUE) => progress[p] = "done"
           /\ (call[p].pc = "wait" /\ progress[p] # "done") => ~ENABLED StartWait(p)
           /\ (Failed(p) = {} /\ progress[p] # "done") => ~Done(p)

\* startVm has returned after its three calls, all successful.
C13_Witness ==
    \E p \in Calls :
        /\ IsStart(p) /\ Done(p) /\ call[p].outcome = "returned"
        /\ Failed(p) = {}
        /\ [i \in 1..Len(call[p].log) |-> call[p].log[i].op] = StartOrder
        /\ progress[p] = "done"


(***************************************************************************)
(* C14: a session-guarded action whose Shared lock was granted calls       *)
(* exactly one primitive of the service, the one of its kind (acpiPowerVm  *)
(* -> console.powerButton, stopVm -> console.powerDown, saveVm ->          *)
(* console.saveState, discardSavedVm -> machine.discardSavedState,         *)
(* resumeVm -> console.resume, pauseVm -> console.pause), on the session   *)
(* it locked, after the successful lock and before the unlock; an action   *)
(* whose lock was not granted calls no primitive.                          *)
(***************************************************************************)
\* The primitive the action kind stands for.
PrimitiveOfKind(fn) ==
    CASE fn = "acpiPowerVm" -> "console.powerButton"
      [] fn = "stopVm" -> "console.powerDown"
      [] fn = "saveVm" -> "console.saveState"
      [] fn = "discardSavedVm" -> "machine.discardSavedState"
      [] fn = "resumeVm" -> "console.resume"
      [] fn = "pauseVm" -> "console.pause"

\* The places of a call's history where op was called, or a primitive.
At(p, op) == {i \in DOMAIN call[p].log : call[p].log[i].op = op}

PrimitivesAt(p) == {i \in DOMAIN call[p].log : call[p].log[i].op \in Primitives}

C14_OnePrimitiveUnderLock ==
    \A p \in Calls : IsGuarded(p) =>
        LET log == call[p].log
        IN /\ Cardinality(PrimitivesAt(p)) <= 1
           /\ \A i \in PrimitivesAt(p) :
                 /\ log[i].op = PrimitiveOfKind(call[p].fn)
                 /\ \E j \in At(p, "lockMachine") :
                        j < i /\ log[j].ok /\ log[j].s = log[i].s
                 /\ \A k \in At(p, "unlockMachine") : i < k
           /\ ~Did(p, "lockMachine", TRUE) => PrimitivesAt(p) = {}
           /\ (Did(p, "lockMachine", TRUE) /\ call[p].pc \in {"finally", "done"})
                 => Cardinality(PrimitivesAt(p)) = 1
           /\ call[p].pc = "body" => PrimitivesAt(p) = {}

\* stopVm has returned: session, lock, console.powerDown, unlock.
C14_Witness ==
    \E p \in Calls :
        /\ call[p].fn = "stopVm" /\ Done(p) /\ call[p].outcome = "returned"
        /\ [i \in 1..Len(call[p].log) |-> call[p].log[i].op]
              = <<"getSessionObject", "lockMachine", "console.powerDown",
                  "unlockMachine">>
        /\ Failed(p) = {}


(***************************************************************************)
(* C15: under every interleaving of session-guarded actions, an action     *)
(* calls unlockMachine only on the session getSessionObject gave it in     *)
(* that call; the unlock of an action whose lock was rejected does not     *)
(* release the lock another action in flight holds on the same machine:    *)
(* from the granted lock to its own unlock the machine stays locked into   *)
(* the action's own session, so its primitive runs under its own lock.     *)
(***************************************************************************)
\* The session getSessionObject returned to call p.
Obtained(p) ==
    {call[p].log[i].s : i \in {j \in At(p, "getSessionObject") : call[p].log[j].ok}}

C15_UnlockOwnSession ==
    \A p \in Calls : IsGuarded(p) =>
        /\ \A i \in At(p, "unlockMachine") :
              /\ call[p].log[i].s \in Obtained(p)
              /\ \A r \in Calls \ {p} : call[p].log[i].s \notin Obtained(r)
        /\ (Did(p, "lockMachine", TRUE) /\ call[p].pc \in {"body", "finally"})
              => lockOf[call[p].m] = call[p].sess
        /\ \A r \in Calls \ {p} :
              (call[r].pc \in {"body", "finally"} /\ Did(r, "lockMachine", TRUE)
               /\ call[r].m = call[p].m)
                  => ~Did(p, "lockMachine", TRUE) \/ Done(p)

\* One action holds the machine and has yet to call its primitive; the
\* other, on the same machine, had its lock rejected, called unlockMachine
\* on its own session with success, and is over.
C15_Witness ==
    \E p, r \in Calls :
        /\ p # r /\ call[p].m = call[r].m
        /\ call[p].pc = "body" /\ lockOf[call[p].m] = call[p].sess
        /\ Done(r) /\ IsGuarded(r)
        /\ Did(r, "lockMachine", FALSE) /\ Did(r, "unlockMachine", TRUE)


(***************************************************************************)
(* C16: in every entry buildItem makes, the state name shown as subtext    *)
(* and the action list come from one observation of the machine's state,   *)
(* also when the service changes the state while the entry is being made:  *)
(* the subtext names the state the actions were chosen for, and no entry   *)
(* shows the name of one state with the actions of another.                *)
(***************************************************************************)
C16_OneObservation ==
    \A i \in 1..Len(q.out) :
        /\ q.out[i].subtext = getEnumValueName(q.out[i].obs)
        /\ \E s \in RunStates :
              /\ q.out[i].subtext = getEnumValueName(s)
              /\ q.out[i].actions = buildItemActions(q.out[i].id, s)

=============================================================================
